---- MODULE Spec2Model ----
(***************************************************************************)
(* ATLS tutor core: fact normalization (normalize), the forward-chaining   *)
(* rules engine (run_atls_engine) and case-based retrieval (case_distance, *)
(* retrieve_top_k, explain_match) of src/atls_app.py.                      *)
(*                                                                         *)
(* Python values that reach normalize are modelled as tagged records:      *)
(*   Absent       the key is missing from the dict (d.get uses its default)*)
(*   PyNone       None                                                     *)
(*   PyStr(s)     a str that is not a decimal literal ("" is the empty str)*)
(*   PyNumStr(n)  a str holding the decimal literal of the integer n       *)
(*   PyInt(n)     an int                                                   *)
(*   PyList(n)    a list of length n (unhashable; falsy when n = 0)        *)
(* A normalized record holds native values: strings for the enum fields    *)
(* and integers for sbp and gcs.                                           *)
(***************************************************************************)
EXTENDS Integers, Sequences, FiniteSets, TLC

VARIABLES
    raw,        \* the dict handed to normalize (key -> tagged value)
    status,     \* outcome of the last call: "none", "returned", "TypeError", "ValueError"
    facts,      \* the facts record (normalize's return value, or the caller's record)
    again,      \* normalize applied to its own output
    againStatus,\* outcome of that second call
    actions,    \* list returned by run_atls_engine
    kArg,       \* the k passed to retrieve_top_k
    scored,     \* retrieve_top_k's local list when it returns (sorted in place)
    neighbours, \* list returned by retrieve_top_k: <<similarity, case>> pairs
    explained,  \* explain_match's (matches, diffs) for each returned neighbour
    caseBase,   \* the module-level CASE_BASE list
    overlap,    \* action texts shared by the engine's plan and the top case's
    reqs,       \* concurrent invocations sharing caseBase (SpecShared)
    pc          \* position in the request pipeline

vars == <<raw, status, facts, again, againStatus, actions, kArg, scored,
          neighbours, explained, caseBase, overlap, reqs, pc>>

----------------------------------------------------------------------------
(* Python values *)

Absent == [tag |-> "absent", s |-> "", n |-> 0]
PyNone == [tag |-> "none", s |-> "", n |-> 0]
PyStr(x) == [tag |-> "str", s |-> x, n |-> 0]
PyNumStr(i) == [tag |-> "numstr", s |-> "", n |-> i]
PyInt(i) == [tag |-> "int", s |-> "", n |-> i]
PyList(len) == [tag |-> "list", s |-> "", n |-> len]

\* bool(x): None, 0, "" and [] are falsy
Truthy(x) ==
    CASE x.tag = "none" -> FALSE
      [] x.tag = "int" -> x.n # 0
      [] x.tag = "str" -> x.s # ""
      [] x.tag = "list" -> x.n # 0
      [] OTHER -> TRUE

\* x or default
PyOr(x, default) == IF Truthy(x) THEN x ELSE default

\* d.get(key, default): the default only replaces a missing key, not None
Get(d, key, default) == IF d[key] = Absent THEN default ELSE d[key]

\* int(x): [exc, val]
PyIntOf(x) ==
    CASE x.tag = "int" -> [exc |-> "none", val |-> x.n]
      [] x.tag = "numstr" -> [exc |-> "none", val |-> x.n]
      [] x.tag = "str" -> [exc |-> "ValueError", val |-> 0]
      [] OTHER -> [exc |-> "TypeError", val |-> 0]

Max(a, b) == IF a >= b THEN a ELSE b
Min(a, b) == IF a <= b THEN a ELSE b
Abs(a) == IF a >= 0 THEN a ELSE -a

----------------------------------------------------------------------------
(* PatientFacts domain *)

AIRWAY == {"patent", "obstructed", "compromised", "unknown"}
CSPINE == {"yes", "no", "unknown"}
YESNO == {"yes", "no"}
PUPILS == {"equal", "unequal", "unknown"}

SBP_DEFAULT == 120
GCS_DEFAULT == 15
GCS_MIN == 3
GCS_MAX == 15
GCS_AIRWAY == 8

\* the dict literal of normalize, in evaluation order
FactKeys == <<"airway", "cspine", "tension_ptx", "open_ptx", "flail",
              "resp_distress", "sbp", "ext_bleed", "pelvic_unstable", "gcs",
              "pupils", "hypothermia", "burns">>

KeySet == {FactKeys[i] : i \in 1..Len(FactKeys)}

Allowed(key) ==
    CASE key = "airway" -> AIRWAY
      [] key = "cspine" -> CSPINE
      [] key = "pupils" -> PUPILS
      [] OTHER -> YESNO

DefaultOf(key) ==
    CASE key \in {"airway", "cspine", "pupils"} -> "unknown"
      [] OTHER -> "no"

----------------------------------------------------------------------------
(* normalize: src/atls_app.py 100-119 (atls_gemini2facts.py 59-79 is the   *)
(* same function)                                                          *)

\* pick(x, allowed, default): x if x in allowed else default.  `x in allowed`
\* hashes x, so an unhashable x (a list) raises TypeError; None, ints and
\* strings outside the set give the default.
pick(x, allowed, default) ==
    IF x.tag = "list" THEN [exc |-> "TypeError", val |-> default]
    ELSE IF x.tag = "str" /\ x.s \in allowed THEN [exc |-> "none", val |-> x.s]
    ELSE [exc |-> "none", val |-> default]

\* max(0, int(d.get("sbp", 120) or 120))
NormSbp(d) ==
    LET c == PyIntOf(PyOr(Get(d, "sbp", PyInt(SBP_DEFAULT)), PyInt(SBP_DEFAULT)))
    IN  [exc |-> c.exc, val |-> Max(0, c.val)]

\* min(15, max(3, int(d.get("gcs", 15) or 15)))
NormGcs(d) ==
    LET c == PyIntOf(PyOr(Get(d, "gcs", PyInt(GCS_DEFAULT)), PyInt(GCS_DEFAULT)))
    IN  [exc |-> c.exc, val |-> Min(GCS_MAX, Max(GCS_MIN, c.val))]

\* one entry of the dict literal
NormField(d, key) ==
    CASE key = "sbp" -> NormSbp(d)
      [] key = "gcs" -> NormGcs(d)
      [] OTHER -> pick(Get(d, key, PyStr(DefaultOf(key))), Allowed(key), DefaultOf(key))

\* the entries are evaluated in the order of the literal: the first one that
\* raises ends the call with its exception
FirstRaise(d) ==
    LET bad == {i \in 1..Len(FactKeys) : NormField(d, FactKeys[i]).exc # "none"}
    IN  IF bad = {} THEN "none"
        ELSE NormField(d, FactKeys[CHOOSE i \in bad : \A j \in bad : i <= j]).exc

\* if out["airway"] == "unknown" and out["gcs"] <= 8: out["airway"] = "compromised"
DeriveAirway(out) ==
    IF out.airway = "unknown" /\ out.gcs <= GCS_AIRWAY
    THEN [out EXCEPT !.airway = "compromised"]
    ELSE out

\* placeholder held by `facts` when no record was returned
NoFacts ==
    [airway |-> "", cspine |-> "", tension_ptx |-> "", open_ptx |-> "",
     flail |-> "", resp_distress |-> "", sbp |-> 0, ext_bleed |-> "",
     pelvic_unstable |-> "", gcs |-> 0, pupils |-> "", hypothermia |-> "",
     burns |-> ""]

\* normalize(d): [exc, out]
\* d when normalize returns: the code only reads d (d.get), its writes go to out
ArgAfterNormalize(d) == d

normalize(d) ==
    LET exc == FirstRaise(d)
        out == [airway |-> NormField(d, "airway").val,
                cspine |-> NormField(d, "cspine").val,
                tension_ptx |-> NormField(d, "tension_ptx").val,
                open_ptx |-> NormField(d, "open_ptx").val,
                flail |-> NormField(d, "flail").val,
                resp_distress |-> NormField(d, "resp_distress").val,
                sbp |-> NormField(d, "sbp").val,
                ext_bleed |-> NormField(d, "ext_bleed").val,
                pelvic_unstable |-> NormField(d, "pelvic_unstable").val,
                gcs |-> NormField(d, "gcs").val,
                pupils |-> NormField(d, "pupils").val,
                hypothermia |-> NormField(d, "hypothermia").val,
                burns |-> NormField(d, "burns").val]
    IN  IF exc # "none" THEN [exc |-> exc, out |-> NoFacts]
        ELSE [exc |-> "none", out |-> DeriveAirway(out)]

\* a returned record read back as a dict of Python values
AsDict(f) ==
    [airway |-> PyStr(f.airway), cspine |-> PyStr(f.cspine),
     tension_ptx |-> PyStr(f.tension_ptx), open_ptx |-> PyStr(f.open_ptx),
     flail |-> PyStr(f.flail), resp_distress |-> PyStr(f.resp_distress),
     sbp |-> PyInt(f.sbp), ext_bleed |-> PyStr(f.ext_bleed),
     pelvic_unstable |-> PyStr(f.pelvic_unstable), gcs |-> PyInt(f.gcs),
     pupils |-> PyStr(f.pupils), hypothermia |-> PyStr(f.hypothermia),
     burns |-> PyStr(f.burns)]

\* the domain constraints of PatientFacts
InDomain(f) ==
    /\ f.airway \in AIRWAY
    /\ f.cspine \in CSPINE
    /\ f.pupils \in PUPILS
    /\ \A k \in {"tension_ptx", "open_ptx", "flail", "resp_distress",
                 "ext_bleed", "pelvic_unstable", "hypothermia", "burns"} :
           f[k] \in YESNO
    /\ f.sbp >= 0
    /\ f.gcs >= GCS_MIN /\ f.gcs <= GCS_MAX

----------------------------------------------------------------------------
(* run_atls_engine: src/atls_app.py 124-202.  An action is the pair        *)
(* <<name, why>> that fire appends.                                        *)

SHOCK_SBP == 90
GCS_NEURO == 13

A_PRIMARY ==
    <<"PRIMARY SURVEY: Follow ABCDE with life-threats first.",
      "ATLS primary survey begins now">>
A_OBSTRUCTED ==
    <<"A) AIRWAY OBSTRUCTED: Jaw thrust, suction; adjunct; prepare intubation.",
      "Obstructed airway threatens oxygenation/ventilation">>
A_CSPINE_FULL ==
    <<"A) C-SPINE: Maintain full cervical spine immobilization.",
      "C-spine protection during airway maneuvers">>
A_DEFINITIVE ==
    <<"A) DEFINITIVE AIRWAY: Consider RSI for airway protection (GCS<=8 or compromised).",
      "Failure to protect airway or low GCS">>
A_CSPINE ==
    <<"A) C-SPINE: Maintain immobilization.",
      "Mechanism/assessment suggests cervical spine risk">>
A_TENSION ==
    <<"B) TENSION PNEUMOTHORAX: Immediate needle decompression, then chest tube.",
      "Life-threatening ventilatory compromise">>
A_OPEN ==
    <<"B) OPEN PNEUMOTHORAX: 3-sided occlusive dressing; chest tube and definitive closure.",
      "Sucking chest wound impairs ventilation">>
A_CHEST ==
    <<"B) CHEST INJURY/RESP DISTRESS: O2, analgesia; consider PPV; evaluate for underlying injury.",
      "Impaired ventilation requires support">>
A_HEMORRHAGE ==
    <<"C) MASSIVE EXTERNAL HEMORRHAGE: Direct pressure; pressure dressing; tourniquet if needed.",
      "Stop external bleeding immediately">>
A_SHOCK ==
    <<"C) SHOCK: 2 large-bore IVs; consider blood products (balanced resuscitation); control bleeding source.",
      "SBP<90 suggests shock; resuscitate and control hemorrhage">>
A_PELVIC ==
    <<"C) PELVIC UNSTABLE: Apply pelvic binder; minimize manipulation; evaluate for pelvic hemorrhage.",
      "Pelvic ring injuries bleed significantly">>
\* the source's justification holds a non-ASCII arrow where "->" stands here
A_NEURO ==
    <<"D) NEURO: Frequent neuro checks; consider head CT when stable; correct hypoxia/hypotension.",
      "Low GCS or unequal pupils -> possible TBI">>
A_EXPOSURE ==
    <<"E) EXPOSURE: Fully expose for inspection; then prevent hypothermia.",
      "Hidden injuries & thermal protection">>
A_HYPOTHERMIA ==
    <<"E) HYPOTHERMIA: Remove wet clothing; warm blankets; warmed fluids/air.",
      "Hypothermia worsens coagulopathy and outcomes">>
A_SECONDARY ==
    <<"SECONDARY SURVEY: Head-to-toe exam & adjuncts once immediate threats addressed.",
      "Stable enough to proceed to secondary survey">>
\* variant of A_TRANSFER with the short wording of the stored plans
A_TRANSFER_SHORT == <<"Consider transfer", "Persistent life threat or resource needs">>
A_TRANSFER ==
    <<"CONSIDER TRANSFER: If resources limited or persistent instability, prepare rapid transfer to trauma center.",
      "Persistent life threat or resource needs">>

\* fire(name, why): actions.append((name, why))
fire(acts, a) == Append(acts, a)

\* variant of FireAirway that drops the second C-spine action once the
\* obstruction rule has fired one
FireAirwayDedup(f, acts) ==
    LET a1 == IF f.airway = "obstructed"
              THEN fire(fire(acts, A_OBSTRUCTED), A_CSPINE_FULL)
              ELSE acts
        a2 == IF f.airway = "compromised" \/ f.gcs <= GCS_AIRWAY
              THEN fire(a1, A_DEFINITIVE)
              ELSE a1
    IN  IF f.cspine = "yes" /\ f.airway # "obstructed"
        THEN fire(a2, A_CSPINE)
        ELSE a2

\* A: airway + C-spine (lines 134-146)
FireAirway(f, acts) ==
    LET a1 == IF f.airway = "obstructed"
              THEN fire(fire(acts, A_OBSTRUCTED), A_CSPINE_FULL)
              ELSE acts
        a2 == IF f.airway = "compromised" \/ f.gcs <= GCS_AIRWAY
              THEN fire(a1, A_DEFINITIVE)
              ELSE a1
    IN  IF f.cspine = "yes" THEN fire(a2, A_CSPINE) ELSE a2

\* B: breathing (lines 149-159)
FireBreathing(f, acts) ==
    LET b1 == IF f.tension_ptx = "yes" THEN fire(acts, A_TENSION) ELSE acts
        b2 == IF f.open_ptx = "yes" THEN fire(b1, A_OPEN) ELSE b1
    IN  IF f.flail = "yes" \/ f.resp_distress = "yes"
        THEN fire(b2, A_CHEST)
        ELSE b2

\* C: circulation + hemorrhage control (lines 162-172)
FireCirculation(f, acts) ==
    LET c1 == IF f.ext_bleed = "yes" THEN fire(acts, A_HEMORRHAGE) ELSE acts
        c2 == IF f.sbp < SHOCK_SBP THEN fire(c1, A_SHOCK) ELSE c1
    IN  IF f.pelvic_unstable = "yes" THEN fire(c2, A_PELVIC) ELSE c2

\* D: disability (lines 175-177)
FireDisability(f, acts) ==
    IF f.gcs < GCS_NEURO \/ f.pupils = "unequal"
    THEN fire(acts, A_NEURO)
    ELSE acts

\* variant of FireExposure in which exposure is conditional
FireExposureGuarded(f, acts) ==
    IF f.hypothermia = "yes"
    THEN fire(fire(acts, A_EXPOSURE), A_HYPOTHERMIA)
    ELSE acts

\* E: exposure (lines 180-185)
FireExposure(f, acts) ==
    LET e1 == fire(acts, A_EXPOSURE)
    IN  IF f.hypothermia = "yes" THEN fire(e1, A_HYPOTHERMIA) ELSE e1

\* variant of stable_for_secondary that ignores an open pneumothorax
stable_ignoring_open_ptx(f) ==
    /\ f.airway \in {"patent", "compromised"}
    /\ f.tension_ptx = "no"
    /\ f.sbp >= SHOCK_SBP

\* lines 188-193
stable_for_secondary(f) ==
    /\ f.airway \in {"patent", "compromised"}
    /\ f.tension_ptx = "no"
    /\ f.open_ptx = "no"
    /\ f.sbp >= SHOCK_SBP

\* variant of FireDisposition whose transfer branch ignores tension_ptx
FireDispositionNoTension(f, acts) ==
    IF stable_for_secondary(f)
    THEN fire(acts, A_SECONDARY)
    ELSE IF f.sbp < SHOCK_SBP \/ f.airway = "obstructed"
         THEN fire(acts, A_TRANSFER)
         ELSE acts

\* secondary survey vs transfer (lines 194-200)
FireDisposition(f, acts) ==
    IF stable_for_secondary(f)
    THEN fire(acts, A_SECONDARY)
    ELSE IF f.sbp < SHOCK_SBP \/ f.tension_ptx = "yes" \/ f.airway = "obstructed"
         THEN fire(acts, A_TRANSFER)
         ELSE acts

run_atls_engine(f) ==
    FireDisposition(f,
      FireExposure(f,
        FireDisability(f,
          FireCirculation(f,
            FireBreathing(f,
              FireAirway(f,
                fire(<<>>, A_PRIMARY)))))))

----------------------------------------------------------------------------
(* CASE_BASE: src/atls_app.py 207-444 *)

CASE_1 ==
    [id |-> 1,
     label |-> "High-speed MVC with tension PTX and shock",
     airway |-> "compromised", cspine |-> "yes", tension_ptx |-> "yes",
     open_ptx |-> "no", flail |-> "no", resp_distress |-> "yes",
     sbp |-> 80, ext_bleed |-> "no", pelvic_unstable |-> "no", gcs |-> 6,
     pupils |-> "equal", hypothermia |-> "no", burns |-> "no",
     actions |-> <<"RSI airway", "Needle decompression", "Chest tube",
                   "IV access + blood", "Consider transfer">>]
CASE_2 ==
    [id |-> 2,
     label |-> "GSW to thigh with massive hemorrhage",
     airway |-> "patent", cspine |-> "unknown", tension_ptx |-> "no",
     open_ptx |-> "no", flail |-> "no", resp_distress |-> "no", sbp |-> 70,
     ext_bleed |-> "yes", pelvic_unstable |-> "no", gcs |-> 14,
     pupils |-> "equal", hypothermia |-> "no", burns |-> "no",
     actions |-> <<"Direct pressure / tourniquet", "IV access + blood",
                   "Monitor for shock", "Consider transfer">>]
CASE_3 ==
    [id |-> 3,
     label |-> "Pelvic crush injury with hypotension",
     airway |-> "patent", cspine |-> "unknown", tension_ptx |-> "no",
     open_ptx |-> "no", flail |-> "no", resp_distress |-> "no", sbp |-> 85,
     ext_bleed |-> "no", pelvic_unstable |-> "yes", gcs |-> 13,
     pupils |-> "equal", hypothermia |-> "no", burns |-> "no",
     actions |-> <<"Pelvic binder", "IV access + blood",
                   "Assess for pelvic hemorrhage", "Consider transfer">>]
CASE_4 ==
    [id |-> 4,
     label |-> "Stable blunt trauma",
     airway |-> "patent", cspine |-> "no", tension_ptx |-> "no",
     open_ptx |-> "no", flail |-> "no", resp_distress |-> "no",
     sbp |-> 120, ext_bleed |-> "no", pelvic_unstable |-> "no", gcs |-> 15,
     pupils |-> "equal", hypothermia |-> "no", burns |-> "no",
     actions |-> <<"Complete primary survey", "Secondary survey",
                   "Adjunct imaging as needed">>]
CASE_5 ==
    [id |-> 5,
     label |-> "House fire with burns and inhalation injury",
     airway |-> "compromised", cspine |-> "unknown", tension_ptx |-> "no",
     open_ptx |-> "no", flail |-> "no", resp_distress |-> "yes",
     sbp |-> 110, ext_bleed |-> "no", pelvic_unstable |-> "no", gcs |-> 14,
     pupils |-> "equal", hypothermia |-> "no", burns |-> "yes",
     actions |-> <<"Early airway protection", "High-flow oxygen",
                   "Burn management", "Prevent hypothermia">>]
CASE_6 ==
    [id |-> 6,
     label |-> "Elderly fall with hypothermia",
     airway |-> "patent", cspine |-> "yes", tension_ptx |-> "no",
     open_ptx |-> "no", flail |-> "no", resp_distress |-> "no",
     sbp |-> 110, ext_bleed |-> "no", pelvic_unstable |-> "no", gcs |-> 14,
     pupils |-> "equal", hypothermia |-> "yes", burns |-> "no",
     actions |-> <<"C-spine immobilization", "Warm blankets",
                   "Warmed IV fluids", "Secondary survey">>]
CASE_7 ==
    [id |-> 7,
     label |-> "Pediatric blunt trauma, stable",
     airway |-> "patent", cspine |-> "no", tension_ptx |-> "no",
     open_ptx |-> "no", flail |-> "no", resp_distress |-> "no",
     sbp |-> 100, ext_bleed |-> "no", pelvic_unstable |-> "no", gcs |-> 15,
     pupils |-> "equal", hypothermia |-> "no", burns |-> "no",
     actions |-> <<"Age-appropriate vitals monitoring", "Secondary survey",
                   "Observation">>]
CASE_8 ==
    [id |-> 8,
     label |-> "Flail chest with respiratory distress",
     airway |-> "patent", cspine |-> "yes", tension_ptx |-> "no",
     open_ptx |-> "no", flail |-> "yes", resp_distress |-> "yes",
     sbp |-> 110, ext_bleed |-> "no", pelvic_unstable |-> "no", gcs |-> 15,
     pupils |-> "equal", hypothermia |-> "no", burns |-> "no",
     actions |-> <<"Analgesia", "Positive pressure ventilation",
                   "Evaluate for underlying lung injury">>]
CASE_9 ==
    [id |-> 9,
     label |-> "GSW chest with open pneumothorax",
     airway |-> "patent", cspine |-> "unknown", tension_ptx |-> "no",
     open_ptx |-> "yes", flail |-> "no", resp_distress |-> "yes",
     sbp |-> 95, ext_bleed |-> "no", pelvic_unstable |-> "no", gcs |-> 14,
     pupils |-> "equal", hypothermia |-> "no", burns |-> "no",
     actions |-> <<"Three-sided occlusive dressing", "Chest tube",
                   "Monitor for shock">>]
CASE_10 ==
    [id |-> 10,
     label |-> "Blunt head injury with unequal pupils",
     airway |-> "patent", cspine |-> "yes", tension_ptx |-> "no",
     open_ptx |-> "no", flail |-> "no", resp_distress |-> "no",
     sbp |-> 130, ext_bleed |-> "no", pelvic_unstable |-> "no", gcs |-> 10,
     pupils |-> "unequal", hypothermia |-> "no", burns |-> "no",
     actions |-> <<"Frequent neuro checks", "Rapid CT head when stable",
                   "Avoid hypotension/hypoxia">>]

CASE_BASE ==
    <<CASE_1, CASE_2, CASE_3, CASE_4, CASE_5, CASE_6, CASE_7, CASE_8, CASE_9,
      CASE_10>>

\* the facts of a stored case (a case dict is passed where facts are expected)
FactsOf(c) ==
    [airway |-> c.airway, cspine |-> c.cspine, tension_ptx |-> c.tension_ptx,
     open_ptx |-> c.open_ptx, flail |-> c.flail,
     resp_distress |-> c.resp_distress, sbp |-> c.sbp,
     ext_bleed |-> c.ext_bleed, pelvic_unstable |-> c.pelvic_unstable,
     gcs |-> c.gcs, pupils |-> c.pupils, hypothermia |-> c.hypothermia,
     burns |-> c.burns]

----------------------------------------------------------------------------
(* Python floats.  case_distance and retrieve_top_k compute in IEEE-754     *)
(* doubles, and the order retrieve_top_k returns depends on how the sums    *)
(* round.  A double x with 0 <= x < 64 that is a multiple of 2^-60 (every   *)
(* double of 2^-8 or more is) is held exactly as three limbs <<hi, mid, lo>>*)
(* in base 2^22: x = (hi * 2^44 + mid * 2^22 + lo) / 2^60.  Each operation  *)
(* computes the exact result and rounds it to 53 significant bits, ties to  *)
(* even, as the hardware does.                                              *)

LIMB == 4194304
MANT_BITS == 53
FRAC_BITS == 60
DIGIT_BITS == 8

Pow2(j) == 2 ^ j

\* floor(log2(n)) for 1 <= n < 2^31, by halving the range
Log2(n) ==
    LET a == IF n >= Pow2(16) THEN 16 ELSE 0
        n1 == n \div Pow2(a)
        b == IF n1 >= Pow2(8) THEN 8 ELSE 0
        n2 == n1 \div Pow2(b)
        c == IF n2 >= Pow2(4) THEN 4 ELSE 0
        n3 == n2 \div Pow2(c)
        d == IF n3 >= Pow2(2) THEN 2 ELSE 0
        e == IF n3 \div Pow2(d) >= 2 THEN 1 ELSE 0
    IN  a + b + c + d + e

FZero == <<0, 0, 0>>
\* 1.0
FOne == <<Pow2(FRAC_BITS - 44), 0, 0>>

\* exact sum of two limb triples (the high limb takes the overflow)
BigAdd(x, y) ==
    LET lo == x[3] + y[3]
        mid == x[2] + y[2] + (lo \div LIMB)
    IN  <<x[1] + y[1] + (mid \div LIMB), mid % LIMB, lo % LIMB>>

\* exact difference x - y, for x >= y
BigSub(x, y) ==
    LET lo == x[3] - y[3]
        bl == IF lo < 0 THEN 1 ELSE 0
        mid == x[2] - y[2] - bl
        bm == IF mid < 0 THEN 1 ELSE 0
    IN  <<x[1] - y[1] - bm, mid + bm * LIMB, lo + bl * LIMB>>

\* exact product of a limb triple and a small integer
BigMul(x, k) ==
    LET lo == x[3] * k
        mid == x[2] * k + (lo \div LIMB)
    IN  <<x[1] * k + (mid \div LIMB), mid % LIMB, lo % LIMB>>

BigLess(x, y) ==
    \/ x[1] < y[1]
    \/ x[1] = y[1] /\ x[2] < y[2]
    \/ x[1] = y[1] /\ x[2] = y[2] /\ x[3] < y[3]

\* position of the highest set bit of a non-zero triple
TopBit(x) ==
    IF x[1] > 0 THEN 44 + Log2(x[1])
    ELSE IF x[2] > 0 THEN 22 + Log2(x[2])
    ELSE Log2(x[3])

\* round the exact value x (plus a non-zero remainder below its last bit when
\* sticky) to 53 significant bits, ties to even
Round53(x, sticky) ==
    IF x = FZero THEN FZero
    ELSE LET j == TopBit(x) - (MANT_BITS - 1)
         IN  IF j <= 0 THEN x
             ELSE LET u == Pow2(j)
                      r == x[3] % u
                      q == x[3] \div u
                      up == \/ 2 * r > u
                            \/ 2 * r = u /\ (sticky \/ q % 2 = 1)
                  IN  BigAdd(<<x[1], x[2], q * u>>,
                             <<0, 0, IF up THEN u ELSE 0>>)

\* float(a) / float(n) for integers a >= 0, n > 0
FloatDiv(a, n) ==
    LET top == a * Pow2(FRAC_BITS - 44)
        r1 == top % n
        r2 == (r1 * LIMB) % n
        r3 == (r2 * LIMB) % n
    IN  Round53(<<top \div n, (r1 * LIMB) \div n, (r2 * LIMB) \div n>>, r3 # 0)

\* the double w2 / 2 (the weights are multiples of 0.5)
FloatOfHalves(w2) == <<w2 * Pow2(FRAC_BITS - 45), 0, 0>>

\* x + y
FloatAdd(x, y) == Round53(BigAdd(x, y), FALSE)

\* (w2 / 2) * x
FloatMulHalves(w2, x) ==
    LET p == BigMul(x, w2)
    IN  Round53(<<p[1] \div 2, (p[2] + (p[1] % 2) * LIMB) \div 2,
                  (p[3] + (p[2] % 2) * LIMB) \div 2>>, p[3] % 2 = 1)

RECURSIVE DivStep(_, _, _)
\* long division in base 2^8, n more quotient digits: st is <<quotient,
\* remainder>> with remainder < x.  The digit is estimated from the high
\* limbs (x >= 1.0 makes the estimate the digit or one more) and corrected.
DivStep(st, x, n) ==
    IF n = 0 THEN st
    ELSE LET base == Pow2(DIGIT_BITS)
             rem == BigMul(st[2], base)
             quo == BigMul(st[1], base)
             est == rem[1] \div x[1]
             prod == BigMul(x, est)
         IN  IF BigLess(rem, prod)
             THEN DivStep(<<BigAdd(quo, <<0, 0, est - 1>>),
                            BigSub(BigAdd(rem, x), prod)>>, x, n - 1)
             ELSE DivStep(<<BigAdd(quo, <<0, 0, est>>), BigSub(rem, prod)>>,
                          x, n - 1)

\* 1.0 / x for a double 1.0 <= x < 64.0: floor(2^120 / X) by long division
\* of 2^56 followed by 64 zero bits, then rounded
FloatRecip(x) ==
    IF x = FOne THEN FOne
    ELSE LET digits == (FRAC_BITS + DIGIT_BITS - 1) \div DIGIT_BITS
             start == <<Pow2(2 * FRAC_BITS - digits * DIGIT_BITS - 44), 0, 0>>
             d == DivStep(<<FZero, start>>, x, digits)
         IN  Round53(d[1], d[2] # FZero)

----------------------------------------------------------------------------
(* CBR: src/atls_app.py 446-508 *)

\* SIM_WEIGHTS in halves: 2.0 is 4, 0.5 is 1
SIM_WEIGHTS ==
    [airway |-> 4, cspine |-> 1, tension_ptx |-> 6, open_ptx |-> 6,
     flail |-> 3, resp_distress |-> 3, ext_bleed |-> 6, pelvic_unstable |-> 4,
     hypothermia |-> 2, burns |-> 2, pupils |-> 2, sbp |-> 2, gcs |-> 2]

FEATURE_KEYS ==
    <<"airway", "cspine", "tension_ptx", "open_ptx", "flail", "resp_distress",
      "ext_bleed", "pelvic_unstable", "hypothermia", "burns", "pupils">>

SBP_SCALE == 40
GCS_SCALE == 15
SBP_CLOSE == 10
GCS_CLOSE == 2

RECURSIVE Mismatches(_, _, _, _)
\* the loop of lines 475-477 from key i on: d += SIM_WEIGHTS[key] * (0 or 1)
Mismatches(q, c, d, i) ==
    IF i > Len(FEATURE_KEYS) THEN d
    ELSE LET key == FEATURE_KEYS[i]
             pen == IF q[key] = c[key] THEN FZero
                    ELSE FloatOfHalves(SIM_WEIGHTS[key])
         IN  Mismatches(q, c, FloatAdd(d, pen), i + 1)

\* variant of case_distance that measures the case's sbp against the default
\* instead of the query's
case_distance_default_sbp(q, c) ==
    LET d1 == FloatAdd(FZero,
                  FloatMulHalves(SIM_WEIGHTS.sbp,
                      FloatDiv(Abs(SBP_DEFAULT - c.sbp), SBP_SCALE)))
        d2 == FloatAdd(d1,
                  FloatMulHalves(SIM_WEIGHTS.gcs,
                      FloatDiv(Abs(q.gcs - c.gcs), GCS_SCALE)))
    IN  Mismatches(q, c, d2, 1)

case_distance(q, c) ==
    LET d1 == FloatAdd(FZero,
                  FloatMulHalves(SIM_WEIGHTS.sbp,
                      FloatDiv(Abs(q.sbp - c.sbp), SBP_SCALE)))
        d2 == FloatAdd(d1,
                  FloatMulHalves(SIM_WEIGHTS.gcs,
                      FloatDiv(Abs(q.gcs - c.gcs), GCS_SCALE)))
    IN  Mismatches(q, c, d2, 1)

\* sim = 1.0 / (1.0 + dist)
Similarity(q, c) == FloatRecip(FloatAdd(FOne, case_distance(q, c)))

\* scored, before the sort (lines 481-485)
Scored(q, cases) == [i \in 1..Len(cases) |-> <<Similarity(q, cases[i]), cases[i]>>]

\* variant of InsertDesc that puts x ahead of the elements with an equal key
\* (a descending sort that is not stable)
InsertDescUnstable(sorted, x) ==
    LET ahead == {i \in 1..Len(sorted) : BigLess(x[1], sorted[i][1])}
        n == IF ahead = {} THEN 0 ELSE CHOOSE i \in ahead : \A j \in ahead : j <= i
    IN  SubSeq(sorted, 1, n) \o <<x>> \o SubSeq(sorted, n + 1, Len(sorted))

\* x inserted behind every element whose key is not smaller: what a stable
\* descending sort does with the next element
InsertDesc(sorted, x) ==
    LET ahead == {i \in 1..Len(sorted) : ~BigLess(sorted[i][1], x[1])}
        n == IF ahead = {} THEN 0 ELSE CHOOSE i \in ahead : \A j \in ahead : j <= i
    IN  SubSeq(sorted, 1, n) \o <<x>> \o SubSeq(sorted, n + 1, Len(sorted))

RECURSIVE SortDesc(_, _)
\* scored.sort(key=lambda x: x[0], reverse=True): the first n elements, sorted
SortDesc(lst, n) ==
    IF n = 0 THEN <<>> ELSE InsertDesc(SortDesc(lst, n - 1), lst[n])

\* scored[:k]
Slice(seq, k) ==
    IF k >= 0 THEN SubSeq(seq, 1, Min(k, Len(seq)))
    ELSE SubSeq(seq, 1, Max(0, Len(seq) + k))

\* scored after scored.sort(...) (lines 481-486)
Ranked(query_facts, cases) ==
    LET built == Scored(query_facts, cases)
    IN  SortDesc(built, Len(built))

retrieve_top_k(query_facts, cases, k) == Slice(Ranked(query_facts, cases), k)

\* variant in which the sort is applied to the case list itself
CasesSortedInPlace(query_facts, cases) ==
    LET sorted == Ranked(query_facts, cases)
    IN  [i \in 1..Len(sorted) |-> sorted[i][2]]

\* CASE_BASE when retrieve_top_k returns: the loop only reads it, and the
\* sort is applied to the local list scored
CasesAfterRetrieve(query_facts, cases) == cases

\* plan comparison: the engine's action texts that are also stored actions of
\* the case, by exact string equality
plan_overlap(acts, case) ==
    {acts[i][1] : i \in DOMAIN acts} \cap {case.actions[j] : j \in DOMAIN case.actions}

\* explain_match: <<matches, diffs>>
RECURSIVE ExplainKeys(_, _, _, _)
ExplainKeys(query_facts, case, md, i) ==
    IF i > Len(FEATURE_KEYS) THEN md
    ELSE LET key == FEATURE_KEYS[i]
         IN  IF query_facts[key] = case[key]
             THEN ExplainKeys(query_facts, case, <<Append(md[1], key), md[2]>>, i + 1)
             ELSE ExplainKeys(query_facts, case, <<md[1], Append(md[2], key)>>, i + 1)

\* variant of explain_match whose sbp test is strict
explain_match_strict(query_facts, case) ==
    LET m1 == IF Abs(query_facts.sbp - case.sbp) < SBP_CLOSE
              THEN <<<<"sbp">>, <<>>>> ELSE <<<<>>, <<"sbp">>>>
        m2 == IF Abs(query_facts.gcs - case.gcs) <= GCS_CLOSE
              THEN <<Append(m1[1], "gcs"), m1[2]>>
              ELSE <<m1[1], Append(m1[2], "gcs")>>
    IN  ExplainKeys(query_facts, case, m2, 1)

explain_match(query_facts, case) ==
    LET m1 == IF Abs(query_facts.sbp - case.sbp) <= SBP_CLOSE
              THEN <<<<"sbp">>, <<>>>> ELSE <<<<>>, <<"sbp">>>>
        m2 == IF Abs(query_facts.gcs - case.gcs) <= GCS_CLOSE
              THEN <<Append(m1[1], "gcs"), m1[2]>>
              ELSE <<m1[1], Append(m1[2], "gcs")>>
    IN  ExplainKeys(query_facts, case, m2, 1)

----------------------------------------------------------------------------
(* Inputs *)

GcsMargin == 1
SbpMargin == 0

EmptyDict == [k \in KeySet |-> Absent]

AirwayInputs ==
    {Absent, PyNone, PyList(1), PyStr("bogus")} \cup {PyStr(x) : x \in AIRWAY}
CspineInputs == {PyStr("yes"), PyInt(1)}
PupilsInputs == {PyNone, PyStr("unequal")}
TensionInputs == {Absent, PyStr("maybe")}
BurnsInputs == {Absent, PyStr("no"), PyList(0)}
OtherInputs == {Absent, PyStr("yes")}
SbpInputs ==
    {Absent, PyNone, PyStr("abc"), PyNumStr(85), PyList(0), PyList(1)}
      \cup {PyInt(i) : i \in {-5, 0, 80, SBP_DEFAULT}}
GcsInts ==
    {-1, 0, GCS_AIRWAY, GCS_AIRWAY + 1}
      \cup {GCS_MIN - i : i \in 0..GcsMargin}
      \cup {GCS_MAX + i : i \in 0..GcsMargin}
GcsInputs == {Absent, PyNone, PyStr("abc")} \cup {PyInt(i) : i \in GcsInts}

\* dicts handed to normalize; the six yes/no keys between open_ptx and
\* hypothermia share one value
RawInputs ==
    {[airway |-> a, cspine |-> c, tension_ptx |-> t, open_ptx |-> o,
      flail |-> o, resp_distress |-> o, sbp |-> s, ext_bleed |-> o,
      pelvic_unstable |-> o, gcs |-> g, pupils |-> p, hypothermia |-> o,
      burns |-> b] :
        a \in AirwayInputs, c \in CspineInputs, t \in TensionInputs,
        o \in OtherInputs, s \in SbpInputs, g \in GcsInputs,
        p \in PupilsInputs, b \in BurnsInputs}

SbpSamples ==
    {SBP_DEFAULT}
      \cup {SHOCK_SBP - 1 - i : i \in 0..SbpMargin}
      \cup {SHOCK_SBP + i : i \in 0..SbpMargin}
GcsSamples ==
    {GCS_MIN, GCS_AIRWAY, GCS_AIRWAY + 1, GCS_NEURO - 1, GCS_NEURO, GCS_MAX}

\* in-domain records handed to the engine
EngineFacts ==
    {[airway |-> a, cspine |-> c, tension_ptx |-> t, open_ptx |-> o,
      flail |-> fl, resp_distress |-> rd, sbp |-> s, ext_bleed |-> eb,
      pelvic_unstable |-> pu, gcs |-> g, pupils |-> p, hypothermia |-> h,
      burns |-> "no"] :
        a \in AIRWAY, c \in CSPINE, t \in YESNO, o \in YESNO, fl \in YESNO,
        rd \in YESNO, s \in SbpSamples, eb \in YESNO, pu \in YESNO,
        g \in GcsSamples, p \in PUPILS, h \in YESNO}

\* a stable patient (the spec's scenario B) and a severe one (scenario A)
StableFacts ==
    [airway |-> "patent", cspine |-> "no", tension_ptx |-> "no",
     open_ptx |-> "no", flail |-> "no", resp_distress |-> "no",
     sbp |-> 120, ext_bleed |-> "no", pelvic_unstable |-> "no", gcs |-> 15,
     pupils |-> "equal", hypothermia |-> "no", burns |-> "no"]
SevereFacts ==
    [airway |-> "compromised", cspine |-> "unknown", tension_ptx |-> "yes",
     open_ptx |-> "no", flail |-> "no", resp_distress |-> "no",
     sbp |-> 80, ext_bleed |-> "no", pelvic_unstable |-> "no", gcs |-> 6,
     pupils |-> "unknown", hypothermia |-> "no", burns |-> "no"]

\* records that break the PatientFacts domain in one field
BadFacts ==
    UNION {{[b EXCEPT !.airway = "bogus"], [b EXCEPT !.tension_ptx = "maybe"],
            [b EXCEPT !.gcs = 20], [b EXCEPT !.gcs = 2], [b EXCEPT !.sbp = -5],
            [b EXCEPT !.burns = "maybe"]} : b \in {StableFacts, SevereFacts}}

MaxK == 11

\* a query between cases 4 and 7, and one on which two distances that are
\* equal as real numbers (cases 2 and 10) round to different doubles
TieFacts == [StableFacts EXCEPT !.sbp = 110]
RoundingFacts ==
    [airway |-> "unknown", cspine |-> "unknown", tension_ptx |-> "no",
     open_ptx |-> "yes", flail |-> "yes", resp_distress |-> "yes",
     sbp |-> 57, ext_bleed |-> "no", pelvic_unstable |-> "no", gcs |-> 12,
     pupils |-> "equal", hypothermia |-> "yes", burns |-> "no"]

\* records handed to retrieve_top_k: every stored case's own facts, the same
\* with other vitals, the two above, and the out-of-domain records
Queries ==
    {FactsOf(CASE_BASE[i]) : i \in 1..Len(CASE_BASE)}
      \cup {[FactsOf(CASE_BASE[i]) EXCEPT !.sbp = sb, !.gcs = g] :
               i \in 1..Len(CASE_BASE), sb \in {57, 110}, g \in {9, 15}}
      \cup {TieFacts, RoundingFacts} \cup BadFacts

TOP_K == 3

\* dicts handed to the whole pipeline: the query records as dicts, the empty
\* dict, and dicts on which normalize coerces or raises
AppInputs ==
    {AsDict(q) : q \in Queries}
      \cup {EmptyDict, [EmptyDict EXCEPT !.sbp = PyStr("abc")],
            [EmptyDict EXCEPT !.gcs = PyInt(0)],
            [EmptyDict EXCEPT !.airway = PyStr("obstructed"), !.sbp = PyNumStr(85)]}

----------------------------------------------------------------------------
(* The request pipeline of src/atls_app.py 536-557, one action per call *)

Idle ==
    /\ status = "none"
    /\ again = NoFacts
    /\ againStatus = "none"
    /\ actions = <<>>
    /\ scored = <<>>
    /\ neighbours = <<>>
    /\ explained = <<>>
    /\ overlap = {}

\* facts = normalize(raw)
Normalize ==
    /\ pc = "raw"
    /\ LET r == normalize(raw)
       IN  /\ status' = IF r.exc = "none" THEN "returned" ELSE r.exc
           /\ facts' = r.out
    /\ raw' = ArgAfterNormalize(raw)
    /\ pc' = "normalized"
    /\ UNCHANGED <<again, againStatus, actions, kArg, scored, neighbours,
                   explained, caseBase, overlap, reqs>>

\* normalize applied to the record it returned
Renormalize ==
    /\ pc = "normalized"
    /\ status = "returned"
    /\ LET r == normalize(AsDict(facts))
       IN  /\ againStatus' = IF r.exc = "none" THEN "returned" ELSE r.exc
           /\ again' = r.out
    /\ pc' = "renormalized"
    /\ UNCHANGED <<raw, status, facts, actions, kArg, scored, neighbours,
                   explained, caseBase, overlap, reqs>>

\* actions = run_atls_engine(facts)
RunEngine ==
    /\ pc = "facts" \/ (pc = "normalized" /\ status = "returned")
    /\ actions' = run_atls_engine(facts)
    /\ status' = "returned"
    /\ pc' = "advised"
    /\ UNCHANGED <<raw, facts, again, againStatus, kArg, scored,
                   neighbours, explained, caseBase, overlap, reqs>>

\* neighbours = retrieve_top_k(facts, k=kArg)
Retrieve ==
    /\ pc \in {"facts", "advised"}
    /\ scored' = Ranked(facts, caseBase)
    /\ neighbours' = Slice(scored', kArg)
    /\ caseBase' = CasesAfterRetrieve(facts, caseBase)
    /\ status' = "returned"
    /\ pc' = "retrieved"
    /\ UNCHANGED <<raw, facts, again, againStatus, actions, kArg, explained,
                   overlap, reqs>>

\* for sim, case in neighbours: matches, diffs = explain_match(facts, case)
Explain ==
    /\ pc = "retrieved"
    /\ explained' = [i \in 1..Len(neighbours) |->
                        explain_match(facts, neighbours[i][2])]
    /\ pc' = "explained"
    /\ UNCHANGED <<raw, status, facts, again, againStatus, actions, kArg,
                   scored, neighbours, caseBase, overlap, reqs>>

\* the plan comparison of the top-ranked case with the engine's actions
Compare ==
    /\ pc = "explained"
    /\ actions # <<>>
    /\ neighbours # <<>>
    /\ overlap' = plan_overlap(actions, neighbours[1][2])
    /\ pc' = "compared"
    /\ UNCHANGED <<raw, status, facts, again, againStatus, actions, kArg,
                   scored, neighbours, explained, caseBase, reqs>>

\* a further run of the script: the file is executed again from the top, so
\* line 207 builds CASE_BASE anew before the handler runs
NextCall ==
    /\ pc = "compared" \/ (pc = "normalized" /\ status # "returned")
    /\ raw' \in AppInputs
    /\ facts' = NoFacts
    /\ status' = "none"
    /\ actions' = <<>>
    /\ scored' = <<>>
    /\ neighbours' = <<>>
    /\ explained' = <<>>
    /\ overlap' = {}
    /\ caseBase' = CASE_BASE
    /\ pc' = "raw"
    /\ UNCHANGED <<again, againStatus, kArg, reqs>>

----------------------------------------------------------------------------
(* Concurrent invocations of the handler: each is an execution of the      *)
(* script, which builds its own CASE_BASE (line 207), raw dict, facts      *)
(* record and action list.                                                 *)

NumReq == 2
Inv == 1..NumReq

\* the values a caller writes into a record it was handed
ModValues == {0}

SharedInputs == {AsDict(FactsOf(CASE_1)), AsDict(StableFacts)}

NewReq(d) ==
    [pc |-> "raw", cases |-> CASE_BASE, raw |-> d, facts |-> NoFacts,
     actions |-> <<>>, neighbours |-> <<>>, seen |-> <<>>]

\* the element of the list that a returned pair (sim, c) refers to: c is the
\* dict object of the invocation's CASE_BASE itself (for c in CASE_BASE ...
\* append((sim, c)))
RefOf(cases, c) == CHOOSE p \in DOMAIN cases : cases[p] = c

\* the neighbour list as its holder reads it now
View(r) == [i \in DOMAIN r.neighbours |-> r.cases[r.neighbours[i][2]]]

ReqNormalize(p) ==
    /\ reqs[p].pc = "raw"
    /\ LET r == normalize(reqs[p].raw)
       IN  reqs' = [reqs EXCEPT ![p].facts = r.out,
                                ![p].pc = IF r.exc = "none" THEN "normalized"
                                          ELSE r.exc]
    /\ UNCHANGED <<raw, status, facts, again, againStatus, actions, kArg,
                   scored, neighbours, explained, caseBase, overlap, pc>>

ReqEngine(p) ==
    /\ reqs[p].pc = "normalized"
    /\ reqs' = [reqs EXCEPT ![p].actions = run_atls_engine(reqs[p].facts),
                            ![p].pc = "advised"]
    /\ UNCHANGED <<raw, status, facts, again, againStatus, actions, kArg,
                   scored, neighbours, explained, caseBase, overlap, pc>>

ReqRetrieve(p) ==
    /\ reqs[p].pc = "advised"
    /\ \E found \in {retrieve_top_k(reqs[p].facts, reqs[p].cases, kArg)} :
           reqs' = [reqs EXCEPT
                       ![p].neighbours =
                           [i \in DOMAIN found |->
                               <<found[i][1], RefOf(reqs[p].cases, found[i][2])>>],
                       ![p].seen = [i \in DOMAIN found |-> found[i][2]],
                       ![p].pc = "retrieved"]
    /\ UNCHANGED <<raw, status, facts, again, againStatus, actions, kArg,
                   scored, neighbours, explained, caseBase, overlap, pc>>

\* the caller writes into its own facts record
ReqModifyFacts(p) ==
    /\ reqs[p].pc = "retrieved"
    /\ \E v \in ModValues :
           reqs' = [reqs EXCEPT ![p].facts.sbp = v, ![p].pc = "done"]
    /\ UNCHANGED <<raw, status, facts, again, againStatus, actions, kArg,
                   scored, neighbours, explained, caseBase, overlap, pc>>

\* the caller empties its own action list
ReqModifyActions(p) ==
    /\ reqs[p].pc = "retrieved"
    /\ reqs' = [reqs EXCEPT ![p].actions = <<>>, ![p].pc = "done"]
    /\ UNCHANGED <<raw, status, facts, again, againStatus, actions, kArg,
                   scored, neighbours, explained, caseBase, overlap, pc>>

\* the caller writes into a case record of its neighbour list: the record is
\* the element of its own CASE_BASE
ReqModifyCase(p) ==
    /\ reqs[p].pc = "retrieved"
    /\ \E i \in DOMAIN reqs[p].neighbours : \E v \in ModValues :
           reqs' = [reqs EXCEPT
                       ![p].cases[reqs[p].neighbours[i][2]].sbp = v,
                       ![p].pc = "done"]
    /\ UNCHANGED <<raw, status, facts, again, againStatus, actions, kArg,
                   scored, neighbours, explained, caseBase, overlap, pc>>

----------------------------------------------------------------------------
(* Specifications *)

\* normalize on an untrusted dict, then on its own output
InitNorm ==
    /\ raw \in RawInputs
    /\ facts = NoFacts
    /\ kArg = 0
    /\ caseBase = CASE_BASE
    /\ reqs = <<>>
    /\ pc = "raw"
    /\ Idle

NextNorm == Normalize \/ Renormalize

SpecNorm == InitNorm /\ [][NextNorm]_vars

\* run_atls_engine on a caller's record
InitEngine ==
    /\ raw = EmptyDict
    /\ facts \in EngineFacts \cup {StableFacts, SevereFacts} \cup BadFacts
    /\ kArg = 0
    /\ caseBase = CASE_BASE
    /\ reqs = <<>>
    /\ pc = "facts"
    /\ Idle

NextEngine == RunEngine

SpecEngine == InitEngine /\ [][NextEngine]_vars

\* retrieve_top_k and explain_match on a caller's record
InitCBR ==
    /\ raw = EmptyDict
    /\ facts \in Queries
    /\ kArg \in 0..MaxK
    /\ caseBase = CASE_BASE
    /\ reqs = <<>>
    /\ pc = "facts"
    /\ Idle

NextCBR == Retrieve \/ Explain

SpecCBR == InitCBR /\ [][NextCBR]_vars

\* the whole pipeline on an untrusted dict, request after request
InitApp ==
    /\ raw \in AppInputs
    /\ facts = NoFacts
    /\ kArg = TOP_K
    /\ caseBase = CASE_BASE
    /\ reqs = <<>>
    /\ pc = "raw"
    /\ Idle

NextApp == Normalize \/ RunEngine \/ Retrieve \/ Explain \/ Compare \/ NextCall

SpecApp == InitApp /\ [][NextApp]_vars

\* concurrent invocations of the pipeline, interleaved call by call
InitShared ==
    /\ raw = EmptyDict
    /\ facts = NoFacts
    /\ kArg = TOP_K
    /\ caseBase = CASE_BASE
    /\ reqs \in [Inv -> {NewReq(d) : d \in SharedInputs}]
    /\ pc = "shared"
    /\ Idle

NextShared ==
    \E p \in Inv :
        \/ ReqNormalize(p)
        \/ ReqEngine(p)
        \/ ReqRetrieve(p)
        \/ ReqModifyFacts(p)
        \/ ReqModifyActions(p)
        \/ ReqModifyCase(p)

SpecShared == InitShared /\ [][NextShared]_vars

----------------------------------------------------------------------------
(* Claims about normalize (SpecNorm) *)

Returned == pc \in {"normalized", "renormalized"} /\ status = "returned"

\* C1: normalize is total: whatever the dict holds (missing keys, None,
\* wrong-typed values, out-of-enum strings, out-of-range integers), the call
\* returns, and the record it returns satisfies every domain constraint.
C1_NormalizeTotal ==
    pc \in {"normalized", "renormalized"} =>
        status = "returned" /\ InDomain(facts)

\* C2: normalize is idempotent: normalizing a returned record returns that
\* same record, field by field.
C2_Idempotent ==
    pc = "renormalized" => againStatus = "returned" /\ again = facts

InvalidAirway(d) ==
    d.airway = Absent \/ ~(d.airway.tag = "str" /\ d.airway.s \in AIRWAY)

LowGcs(d) == NormGcs(d).exc = "none" /\ NormGcs(d).val <= GCS_AIRWAY

\* C3: derived-airway rule: for every input whose airway is absent or not an
\* allowed value and whose gcs resolves to at most 8, the normalized airway
\* is compromised; no returned record has airway unknown with gcs <= 8; an
\* input airway of patent, obstructed or compromised is never overridden.
C3_DerivedAirway ==
    pc \in {"normalized", "renormalized"} =>
        /\ InvalidAirway(raw) /\ LowGcs(raw) =>
               status = "returned" /\ facts.airway = "compromised"
        /\ status = "returned" => ~(facts.airway = "unknown" /\ facts.gcs <= GCS_AIRWAY)
        /\ status = "returned" /\ raw.airway.tag = "str"
             /\ raw.airway.s \in {"patent", "obstructed", "compromised"} =>
               facts.airway = raw.airway.s

\* C13: gcs resolution: a missing or None gcs gives 15, and an integer gcs
\* gives that integer clamped into [3, 15], so every integer below 3,
\* 0 and the negative ones included, gives 3.
C13_GcsResolution ==
    pc = "normalized" /\ status = "returned" =>
        /\ raw.gcs.tag \in {"absent", "none"} => facts.gcs = GCS_DEFAULT
        /\ raw.gcs.tag = "int" =>
               facts.gcs = Min(GCS_MAX, Max(GCS_MIN, raw.gcs.n))

----------------------------------------------------------------------------
(* Claims about run_atls_engine (SpecEngine) *)

Advised == pc = "advised" /\ InDomain(facts)

Has(acts, a) == \E i \in DOMAIN acts : acts[i] = a
Count(acts, a) == Cardinality({i \in DOMAIN acts : acts[i] = a})

\* the actions of the A, B, C and D phases
PhaseActions ==
    {A_OBSTRUCTED, A_CSPINE_FULL, A_DEFINITIVE, A_CSPINE, A_TENSION, A_OPEN,
     A_CHEST, A_HEMORRHAGE, A_SHOCK, A_PELVIC, A_NEURO}

\* C4: rule order: PRIMARY SURVEY is the first action, EXPOSURE occurs
\* exactly once, every airway, C-spine, breathing, circulation and neuro
\* action precedes it, and SECONDARY SURVEY / CONSIDER TRANSFER follow it.
C4_RuleOrder ==
    Advised =>
        /\ Len(actions) >= 1 /\ actions[1] = A_PRIMARY
        /\ Count(actions, A_EXPOSURE) = 1
        /\ \A i, e \in DOMAIN actions :
               actions[e] = A_EXPOSURE =>
                   /\ actions[i] \in PhaseActions => i < e
                   /\ actions[i] \in {A_SECONDARY, A_TRANSFER} => e < i

C4_Witness ==
    /\ Advised
    /\ Has(actions, A_OBSTRUCTED) /\ Has(actions, A_NEURO)
    /\ Has(actions, A_PELVIC) /\ Has(actions, A_TRANSFER)

\* C5: the disposition is one mutually exclusive branch: SECONDARY SURVEY
\* exactly when airway is patent or compromised, tension_ptx and open_ptx are
\* no and sbp >= 90; otherwise CONSIDER TRANSFER exactly when sbp < 90,
\* tension_ptx is yes or airway is obstructed; otherwise neither; never both
\* and each at most once.
C5_Disposition ==
    Advised =>
        LET sec == /\ facts.airway \in {"patent", "compromised"}
                   /\ facts.tension_ptx = "no" /\ facts.open_ptx = "no"
                   /\ facts.sbp >= 90
            tra == ~sec /\ (facts.sbp < 90 \/ facts.tension_ptx = "yes"
                              \/ facts.airway = "obstructed")
        IN  /\ Count(actions, A_SECONDARY) = (IF sec THEN 1 ELSE 0)
            /\ Count(actions, A_TRANSFER) = (IF tra THEN 1 ELSE 0)
            /\ ~(Has(actions, A_SECONDARY) /\ Has(actions, A_TRANSFER))

C5_Witness ==
    /\ Advised
    /\ facts.open_ptx = "yes" /\ facts.sbp >= 90 /\ facts.airway = "patent"
    /\ ~Has(actions, A_SECONDARY) /\ ~Has(actions, A_TRANSFER)

\* C6: a record with sbp < 90, tension_ptx yes or airway obstructed gets
\* CONSIDER TRANSFER and never SECONDARY SURVEY; the severe scenario
\* (sbp 80, gcs 6, tension_ptx yes, airway compromised, the rest at their
\* defaults) also gets DEFINITIVE AIRWAY, TENSION PNEUMOTHORAX and SHOCK.
C6_SevereNeverSecondary ==
    Advised =>
        /\ (facts.sbp < 90 \/ facts.tension_ptx = "yes"
              \/ facts.airway = "obstructed") =>
               Has(actions, A_TRANSFER) /\ ~Has(actions, A_SECONDARY)
        /\ facts = SevereFacts =>
               /\ Has(actions, A_DEFINITIVE) /\ Has(actions, A_TENSION)
               /\ Has(actions, A_SHOCK) /\ Has(actions, A_TRANSFER)
               /\ ~Has(actions, A_SECONDARY)

C6_Witness == Advised /\ facts = SevereFacts /\ Has(actions, A_TRANSFER)

\* the fixed rule list of the specification, as (condition, actions) records
RuleList(f) ==
    <<[on |-> TRUE, emit |-> <<A_PRIMARY>>],
      [on |-> f.airway = "obstructed", emit |-> <<A_OBSTRUCTED, A_CSPINE_FULL>>],
      [on |-> f.airway = "compromised" \/ f.gcs <= 8, emit |-> <<A_DEFINITIVE>>],
      [on |-> f.cspine = "yes", emit |-> <<A_CSPINE>>],
      [on |-> f.tension_ptx = "yes", emit |-> <<A_TENSION>>],
      [on |-> f.open_ptx = "yes", emit |-> <<A_OPEN>>],
      [on |-> f.flail = "yes" \/ f.resp_distress = "yes", emit |-> <<A_CHEST>>],
      [on |-> f.ext_bleed = "yes", emit |-> <<A_HEMORRHAGE>>],
      [on |-> f.sbp < 90, emit |-> <<A_SHOCK>>],
      [on |-> f.pelvic_unstable = "yes", emit |-> <<A_PELVIC>>],
      [on |-> f.gcs < 13 \/ f.pupils = "unequal", emit |-> <<A_NEURO>>],
      [on |-> TRUE, emit |-> <<A_EXPOSURE>>],
      [on |-> f.hypothermia = "yes", emit |-> <<A_HYPOTHERMIA>>],
      [on |-> /\ f.airway \in {"patent", "compromised"}
              /\ f.tension_ptx = "no" /\ f.open_ptx = "no" /\ f.sbp >= 90,
       emit |-> <<A_SECONDARY>>],
      [on |-> /\ ~(/\ f.airway \in {"patent", "compromised"}
                   /\ f.tension_ptx = "no" /\ f.open_ptx = "no" /\ f.sbp >= 90)
              /\ (f.sbp < 90 \/ f.tension_ptx = "yes" \/ f.airway = "obstructed"),
       emit |-> <<A_TRANSFER>>]>>

RECURSIVE Scan(_, _)
\* the single pass: rules[i..] filtered by their conditions, in list order
Scan(rules, i) ==
    IF i > Len(rules) THEN <<>>
    ELSE (IF rules[i].on THEN rules[i].emit ELSE <<>>) \o Scan(rules, i + 1)

\* C7: the returned list is the fixed rule list filtered by the conditions on
\* the unchanged record, nothing re-fired or deduplicated: with airway
\* obstructed and cspine yes both C-spine actions appear; the stable scenario
\* returns exactly primary survey, exposure, secondary survey.
C7_SinglePassScan ==
    Advised =>
        /\ actions = Scan(RuleList(facts), 1)
        /\ facts.airway = "obstructed" /\ facts.cspine = "yes" =>
               Count(actions, A_CSPINE_FULL) = 1 /\ Count(actions, A_CSPINE) = 1
        /\ facts = StableFacts => actions = <<A_PRIMARY, A_EXPOSURE, A_SECONDARY>>

C7_Witness ==
    /\ Advised
    /\ facts.airway = "obstructed" /\ facts.cspine = "yes"
    /\ Has(actions, A_CSPINE_FULL) /\ Has(actions, A_CSPINE)

----------------------------------------------------------------------------
(* Claims about retrieve_top_k and explain_match (SpecCBR) *)

Retrieved == pc \in {"retrieved", "explained"} /\ InDomain(facts)

\* position of a case in the case base
Pos(c) == CHOOSE p \in DOMAIN caseBase : caseBase[p] = c

\* the similarity retrieve_top_k computed for the case at position p
SimOf(p) == LET i == CHOOSE i \in DOMAIN scored : scored[i][2] = caseBase[p]
            IN  scored[i][1]

IsReturned(p) == \E i \in DOMAIN neighbours : neighbours[i][2] = caseBase[p]

\* C8: top-k ordering: the result has min(k, number of cases) elements, its
\* similarities are non-increasing, returned cases of equal similarity keep
\* their case-base order, and no omitted case has a greater similarity than a
\* returned one, nor an equal similarity with an earlier case-base position.
C8_TopKOrdering ==
    Retrieved =>
        /\ Len(neighbours) = Min(kArg, Len(caseBase))
        /\ \A i, j \in DOMAIN neighbours :
               i < j =>
                   /\ ~BigLess(neighbours[i][1], neighbours[j][1])
                   /\ neighbours[i][1] = neighbours[j][1] =>
                          Pos(neighbours[i][2]) < Pos(neighbours[j][2])
        /\ \A p \in DOMAIN caseBase :
               ~IsReturned(p) =>
                   \A i \in DOMAIN neighbours :
                       /\ ~BigLess(neighbours[i][1], SimOf(p))
                       /\ neighbours[i][1] = SimOf(p) => Pos(neighbours[i][2]) < p

C8_Witness ==
    /\ Retrieved
    /\ kArg >= 2 /\ kArg < Len(caseBase)
    /\ \E i, j \in DOMAIN neighbours : i < j /\ neighbours[i][1] = neighbours[j][1]
    /\ \E p \in DOMAIN caseBase : ~IsReturned(p)

AllFeatures == <<"sbp", "gcs">> \o FEATURE_KEYS

\* C9: self-match: a query equal to a stored case's facts is at distance 0
\* and similarity 1.0 from that case, gets that case as its first (for k = 1,
\* its only) neighbour, and explain_match lists all 13 features as matching
\* and none as differing.
C9_SelfMatch ==
    \A p \in DOMAIN caseBase :
        pc = "explained" /\ facts = FactsOf(caseBase[p]) =>
            /\ case_distance(facts, caseBase[p]) = FZero
            /\ Similarity(facts, caseBase[p]) = FOne
            /\ explain_match(facts, caseBase[p]) = <<AllFeatures, <<>>>>
            /\ kArg = 1 => Len(neighbours) = 1
            /\ kArg >= 1 =>
                   /\ neighbours[1] = <<FOne, caseBase[p]>>
                   /\ explained[1] = <<AllFeatures, <<>>>>

C9_Witness ==
    /\ pc = "explained" /\ kArg = 1
    /\ facts = FactsOf(CASE_1)
    /\ Len(neighbours) = 1 /\ neighbours[1][2].id = 1

\* C14: explain_match partitions the features: each of the 13 features is in
\* exactly one of the two lists; sbp is matching exactly when the values are
\* at most 10 apart, gcs when at most 2 apart, a categorical feature when the
\* values are equal; the similarity of the neighbour is what it was.
C14_ExplainPartition ==
    pc = "explained" /\ InDomain(facts) =>
        \A i \in DOMAIN explained :
            LET matches == explained[i][1]
                diffs == explained[i][2]
                case == neighbours[i][2]
            IN  /\ Len(matches) + Len(diffs) = 13
                /\ \A j \in DOMAIN AllFeatures :
                       Count(matches, AllFeatures[j]) + Count(diffs, AllFeatures[j]) = 1
                /\ Has(matches, "sbp") <=> Abs(facts.sbp - case.sbp) <= 10
                /\ Has(matches, "gcs") <=> Abs(facts.gcs - case.gcs) <= 2
                /\ \A j \in DOMAIN FEATURE_KEYS :
                       Has(matches, FEATURE_KEYS[j]) <=>
                           facts[FEATURE_KEYS[j]] = case[FEATURE_KEYS[j]]
                /\ neighbours[i][1] = Similarity(facts, case)

C14_Witness ==
    /\ pc = "explained" /\ InDomain(facts)
    /\ Len(explained) = Len(caseBase)
    /\ \E i \in DOMAIN explained :
           /\ Abs(facts.sbp - neighbours[i][2].sbp) = 10
           /\ Has(explained[i][1], "sbp")
           /\ Has(explained[i][2], "gcs")

----------------------------------------------------------------------------
(* Claims about the whole pipeline (SpecApp) *)

\* C11: read-only core: no call changes CASE_BASE (same cases, same order,
\* same fields and stored actions as at load time), and each call leaves its
\* argument unchanged: normalize its dict, the engine, retrieve_top_k and
\* explain_match the facts record and the cases.
C11_ReadOnly ==
    [][/\ caseBase' = CASE_BASE
       /\ pc' # "raw" => raw' = raw
       /\ pc' \notin {"raw", "normalized"} => facts' = facts
       /\ \A i \in DOMAIN neighbours' :
              \E p \in DOMAIN CASE_BASE : neighbours'[i][2] = CASE_BASE[p]]_vars

C11_Witness ==
    /\ pc = "compared" /\ caseBase = CASE_BASE
    /\ raw # EmptyDict /\ Len(actions) > 3 /\ Len(neighbours) = TOP_K
    /\ Len(explained) = TOP_K

\* every action run_atls_engine can emit
EngineActions ==
    PhaseActions \cup {A_PRIMARY, A_EXPOSURE, A_HYPOTHERMIA, A_SECONDARY, A_TRANSFER}

\* C15: literal plan overlap is always empty: no action text the engine can
\* emit equals a stored action text of any case, so the comparison of the
\* engine's plan with the top-ranked case's stored plan finds nothing.
C15_NoLiteralOverlap ==
    /\ \A a \in EngineActions : \A p \in DOMAIN caseBase :
           \A j \in DOMAIN caseBase[p].actions : a[1] # caseBase[p].actions[j]
    /\ pc = "compared" => overlap = {}

C15_Witness ==
    /\ pc = "compared" /\ InDomain(facts)
    /\ Has(actions, A_TRANSFER)
    /\ neighbours[1][2].id = 1
    /\ overlap = {}

----------------------------------------------------------------------------
(* Claim about concurrent invocations (SpecShared) *)

\* C12: no cross-request aliasing: whatever the invocations do with the
\* values handed to them, CASE_BASE stays as loaded and every invocation
\* that has not written anything itself still reads the neighbour list it
\* was returned.
C12_NoAliasing ==
    \A p \in DOMAIN reqs :
        /\ reqs[p].cases = CASE_BASE
        /\ reqs[p].pc = "retrieved" => View(reqs[p]) = reqs[p].seen

----------------------------------------------------------------------------
(* Claim about out-of-domain records *)

\* C10: fail fast: run_atls_engine or retrieve_top_k given a record with a
\* value outside the PatientFacts domain signals a precondition error and
\* returns no action list and no neighbour list.
C10_FailFast ==
    pc \in {"advised", "retrieved"} /\ ~InDomain(facts) =>
        status = "PreconditionError" /\ actions = <<>> /\ neighbours = <<>>

====
